---- MODULE Spec2Model ----
(***************************************************************************)
(* Carbon-emission accounting tool (src/app.py, a Streamlit script).       *)
(*                                                                         *)
(* The script is re-run from top to bottom after every user action; what   *)
(* survives between runs is st.session_state and the state of the keyed    *)
(* widgets.  One action of this model is one user action followed by the   *)
(* whole script run it triggers.                                           *)
(*                                                                         *)
(* Representation                                                          *)
(*  - A text cell that the code tests with `in` (category, subcategory,    *)
(*    source, factor key) is a sequence of one-character strings, so that   *)
(*    substring tests and f-string concatenation are computed, not assumed. *)
(*    A non-ASCII character is written as its code point ("u56fa" is 固).   *)
(*  - A missing cell (pandas NaN / None) is the value NaN; str() of it is   *)
(*    the three characters n,a,n.                                           *)
(*  - Table columns are record fields:                                      *)
(*      category=类别  subcategory=子类别  source=排放源  facility=设施/过程      *)
(*      quantity=活动数据  unit=计量单位  suggested=建议排放源类型             *)
(*      factor=排放因子  factor_unit=因子单位  ghg_type=温室气体类型           *)
(*      status=匹配状态  provenance=数据来源                                  *)
(*  - An emission factor is an integer number of 1/10^FactorDigits, so      *)
(*    2.1622 is 21622.  A derived quantity is a decimal [m, s] standing     *)
(*    for m / 10^s.                                                         *)
(***************************************************************************)
EXTENDS Integers, Sequences, FiniteSets, TLC

VARIABLES
    emission_factors,   \* st.session_state.emission_factors: key -> info
    uploaded_file,      \* the file held by st.file_uploader (NoFile if none)
    upload_edits,       \* widget state of data_editor key="uploaded_data_editor"
    uploaded_data,      \* st.session_state.uploaded_data
    matched_data,       \* st.session_state.matched_data
    matched_edits,      \* widget state of data_editor key="matched_data_editor"
    edited_data,        \* st.session_state.edited_data
    calculation_done,   \* st.session_state.calculation_done
    calc_df,            \* step 4's calc_df as displayed by the last run (None if not shown)
    error,              \* the st.error the last run ended the upload section with
    library_at_match    \* history: emission_factors as read by the last Matcher run

vars == <<emission_factors, uploaded_file, upload_edits, uploaded_data, matched_data,
          matched_edits, edited_data, calculation_done, calc_df, error, library_at_match>>

\* A session value that may be None is <<>> for None and <<v>> for the value v.
None == <<>>
Some(v) == <<v>>
Get(o) == o[1]

NoFile == "NoFile"
\* a cleared cell of a selectbox or text column (Python None)
NoneCell == "None"

-----------------------------------------------------------------------------
(* Text *)

NaN == <<"NaN">>

\* str(x) of a cell
PyStr(cell) == IF cell = NaN THEN <<"n", "a", "n">> ELSE cell

\* Python's `sub in s`
Contains(sub, s) ==
    \E i \in 1..(Len(s) - Len(sub) + 1) : SubSeq(s, i, i + Len(sub) - 1) = sub

Dash == <<"-">>
GuDingRanShao == <<"u56fa", "u5b9a", "u71c3", "u70e7">>  \* 固定燃烧
YiDongRanShao == <<"u79fb", "u52a8", "u71c3", "u70e7">>  \* 移动燃烧
GongYiPaiFang == <<"u5de5", "u827a", "u6392", "u653e">>  \* 工艺排放
WuZuZhiPaiFang == <<"u65e0", "u7ec4", "u7ec7", "u6392", "u653e">>  \* 无组织排放
WaiGouDianLi == <<"u5916", "u8d2d", "u7535", "u529b">>  \* 外购电力
WaiGouReLi == <<"u5916", "u8d2d", "u70ed", "u529b">>  \* 外购热力
QuanGuoPingJun == <<"u5168", "u56fd", "u5e73", "u5747">>  \* 全国平均
Dian == <<"u7535">>  \* 电
ZhiJie == <<"u76f4", "u63a5">>  \* 直接
JianJie == <<"u95f4", "u63a5">>  \* 间接
TianRanQi == <<"u5929", "u7136", "u6c14">>  \* 天然气
MeiTan == <<"u7164", "u70ad">>  \* 煤炭
ChaiYou == <<"u67f4", "u6cb9">>  \* 柴油
QiYou == <<"u6c7d", "u6cb9">>  \* 汽油
BingWan == <<"u4e19", "u70f7">>  \* 丙烷
ErYangHuaTan == <<"u4e8c", "u6c27", "u5316", "u78b3">>  \* 二氧化碳
R410A == <<"R", "4", "1", "0", "A">>  \* R410A
R32 == <<"R", "3", "2">>  \* R32
JiaWan == <<"u7532", "u70f7", "(", "u5316", "u7caa", "u6c60", ")">>  \* 甲烷(化粪池)
HuaBei == <<"u534e", "u5317", "u533a", "u57df">>  \* 华北区域
HuaDong == <<"u534e", "u4e1c", "u533a", "u57df">>  \* 华东区域
ZhengQi == <<"u84b8", "u6c7d">>  \* 蒸汽
ShengWuZhi == <<"u751f", "u7269", "u8d28">>  \* 生物质
ShiZhengDian == <<"u5916", "u8d2d", "u5e02", "u653f", "u7535">>  \* 外购市政电
Scope1Category == <<"u8303", "u56f4", "u4e00", "uff1a", "u76f4", "u63a5", "u6e29", "u5ba4", "u6c14", "u4f53", "u6392", "u653e">>  \* 范围一：直接温室气体排放
Scope2Category == <<"u8303", "u56f4", "u4e8c", "uff1a", "u95f4", "u63a5", "u6e29", "u5ba4", "u6c14", "u4f53", "u6392", "u653e">>  \* 范围二：间接温室气体排放
OtherCategory == <<"u5176", "u4ed6", "u6392", "u653e">>  \* 其他排放
BothCategory == <<"u76f4", "u63a5", "u4e0e", "u95f4", "u63a5", "u6392", "u653e">>  \* 直接与间接排放
Sub11 == <<"1", ".", "1", " ", "u56fa", "u5b9a", "u71c3", "u70e7">>  \* 1.1 固定燃烧
Sub12 == <<"1", ".", "2", " ", "u79fb", "u52a8", "u71c3", "u70e7">>  \* 1.2 移动燃烧
Sub13 == <<"1", ".", "3", " ", "u5de5", "u827a", "u6392", "u653e">>  \* 1.3 工艺排放
Sub14 == <<"1", ".", "4", " ", "u65e0", "u7ec4", "u7ec7", "u6392", "u653e">>  \* 1.4 无组织排放
Sub21 == <<"2", ".", "1", " ", "u5916", "u8d2d", "u7535", "u529b">>  \* 2.1 外购电力
Sub22 == <<"2", ".", "2", " ", "u5916", "u8d2d", "u70ed", "u529b">>  \* 2.2 外购热力
SubOther == <<"u5176", "u4ed6">>  \* 其他
SubTwoCodes == <<"2", ".", "1", " ", "u5916", "u8d2d", "u7535", "u529b", "(", "u542b", "1", ".", "1", ")">>  \* 2.1 外购电力(含1.1)

Code11 == <<"1", ".", "1">>
Code12 == <<"1", ".", "2">>
Code13 == <<"1", ".", "3">>
Code14 == <<"1", ".", "4">>
Code21 == <<"2", ".", "1">>
Code22 == <<"2", ".", "2">>

\* the literals of the status and provenance columns
Matched == "Matched"                        \* '✅ 已匹配'
Unmatched == "Unmatched"                    \* '❌ 未匹配'
ManuallyOverridden == "ManuallyOverridden"  \* '✏️ 手动'
FactorLibrary == "FactorLibrary"            \* '因子库'
PendingManualEntry == "PendingManualEntry"  \* '待补充' (also the pending unit)
ManualOverride == "ManualOverride"          \* '手动修改'
Unidentified == <<"u672a", "u8bc6", "u522b">>  \* 未识别

-----------------------------------------------------------------------------
(* Factor library *)

FactorDigits == 4

SeedEntries == <<
    [key |-> GuDingRanShao \o Dash \o TianRanQi, factor |-> 21622, unit |-> "kgCO2/m3", ghg_type |-> "CO2"],
    [key |-> GuDingRanShao \o Dash \o MeiTan, factor |-> 23800, unit |-> "kgCO2/kg", ghg_type |-> "CO2"],
    [key |-> GuDingRanShao \o Dash \o ChaiYou, factor |-> 30959, unit |-> "kgCO2/kg", ghg_type |-> "CO2"],
    [key |-> GuDingRanShao \o Dash \o QiYou, factor |-> 29251, unit |-> "kgCO2/kg", ghg_type |-> "CO2"],
    [key |-> YiDongRanShao \o Dash \o QiYou, factor |-> 29251, unit |-> "kgCO2/kg", ghg_type |-> "CO2"],
    [key |-> YiDongRanShao \o Dash \o ChaiYou, factor |-> 30959, unit |-> "kgCO2/kg", ghg_type |-> "CO2"],
    [key |-> GongYiPaiFang \o Dash \o BingWan, factor |-> 29761, unit |-> "kgCO2/kg", ghg_type |-> "CO2"],
    [key |-> GongYiPaiFang \o Dash \o ErYangHuaTan, factor |-> 10000, unit |-> "kgCO2/kg", ghg_type |-> "CO2"],
    [key |-> WuZuZhiPaiFang \o Dash \o R410A, factor |-> 20880000, unit |-> "kgCO2e/kg", ghg_type |-> "HFCs"],
    [key |-> WuZuZhiPaiFang \o Dash \o R32, factor |-> 6750000, unit |-> "kgCO2e/kg", ghg_type |-> "HFCs"],
    [key |-> WuZuZhiPaiFang \o Dash \o JiaWan, factor |-> 224000, unit |-> "kgCO2e/kgBOD", ghg_type |-> "CH4"],
    [key |-> WaiGouDianLi \o Dash \o QuanGuoPingJun, factor |-> 5703, unit |-> "kgCO2/kWh", ghg_type |-> "CO2"],
    [key |-> WaiGouDianLi \o Dash \o HuaBei, factor |-> 8843, unit |-> "kgCO2/kWh", ghg_type |-> "CO2"],
    [key |-> WaiGouDianLi \o Dash \o HuaDong, factor |-> 7035, unit |-> "kgCO2/kWh", ghg_type |-> "CO2"],
    [key |-> WaiGouReLi \o Dash \o ZhengQi, factor |-> 1100000, unit |-> "kgCO2/GJ", ghg_type |-> "CO2"] >>

Info(e) == [factor |-> e.factor, unit |-> e.unit, ghg_type |-> e.ghg_type]

\* the dict literal of the initialisation
SeedLibrary ==
    LET keys == {SeedEntries[i].key : i \in 1..Len(SeedEntries)}
    IN  [k \in keys |-> Info(CHOOSE e \in {SeedEntries[i] : i \in 1..Len(SeedEntries)} : e.key = k)]

\* d[k] = v on a dict
DictPut(d, k, v) == [x \in (DOMAIN d) \cup {k} |-> IF x = k THEN v ELSE d[x]]

\* the guard of the add button: `new_name and new_factor > 0 and new_unit`
AddAccepted(new_name, new_factor, new_unit) ==
    new_name # <<>> /\ new_factor > 0 /\ new_unit # ""

\* the options of the gas-type selectbox
GhgOptions == {"CO2", "CH4", "N2O", "HFCs"}

\* add_factor without the guard of the add button
add_factor_unguarded(lib, new_name, new_factor, new_unit, new_ghg) ==
    DictPut(lib, new_name, [factor |-> new_factor, unit |-> new_unit, ghg_type |-> new_ghg])

\* the library after a click on the add button
add_factor(lib, new_name, new_factor, new_unit, new_ghg) ==
    IF AddAccepted(new_name, new_factor, new_unit)
    THEN DictPut(lib, new_name, [factor |-> new_factor, unit |-> new_unit, ghg_type |-> new_ghg])
    ELSE lib

-----------------------------------------------------------------------------
(* Matcher *)

\* candidate_key with the codes tested in the reverse order
candidate_key_last_wins(subcategory_cell, source_cell) ==
    LET subcat == PyStr(subcategory_cell)
        source == PyStr(source_cell)
    IN  IF Contains(Code22, subcat) THEN WaiGouReLi \o Dash \o source
        ELSE IF Contains(Code21, subcat)
             THEN IF Contains(Dian, source) THEN WaiGouDianLi \o Dash \o QuanGuoPingJun
                  ELSE WaiGouDianLi \o Dash \o source
        ELSE IF Contains(Code14, subcat) THEN WuZuZhiPaiFang \o Dash \o source
        ELSE IF Contains(Code13, subcat) THEN GongYiPaiFang \o Dash \o source
        ELSE IF Contains(Code12, subcat) THEN YiDongRanShao \o Dash \o source
        ELSE IF Contains(Code11, subcat) THEN GuDingRanShao \o Dash \o source
        ELSE <<>>

\* candidate_key without the special case of the electricity pathway
candidate_key_no_collapse(subcategory_cell, source_cell) ==
    LET subcat == PyStr(subcategory_cell)
        source == PyStr(source_cell)
    IN  IF Contains(Code11, subcat) THEN GuDingRanShao \o Dash \o source
        ELSE IF Contains(Code12, subcat) THEN YiDongRanShao \o Dash \o source
        ELSE IF Contains(Code13, subcat) THEN GongYiPaiFang \o Dash \o source
        ELSE IF Contains(Code14, subcat) THEN WuZuZhiPaiFang \o Dash \o source
        ELSE IF Contains(Code21, subcat) THEN WaiGouDianLi \o Dash \o source
        ELSE IF Contains(Code22, subcat) THEN WaiGouReLi \o Dash \o source
        ELSE <<>>

\* the if/elif chain on the rule code
candidate_key(subcategory_cell, source_cell) ==
    LET subcat == PyStr(subcategory_cell)
        source == PyStr(source_cell)
    IN  IF Contains(Code11, subcat) THEN GuDingRanShao \o Dash \o source
        ELSE IF Contains(Code12, subcat) THEN YiDongRanShao \o Dash \o source
        ELSE IF Contains(Code13, subcat) THEN GongYiPaiFang \o Dash \o source
        ELSE IF Contains(Code14, subcat) THEN WuZuZhiPaiFang \o Dash \o source
        ELSE IF Contains(Code21, subcat)
             THEN IF Contains(Dian, source) THEN WaiGouDianLi \o Dash \o QuanGuoPingJun
                  ELSE WaiGouDianLi \o Dash \o source
        ELSE IF Contains(Code22, subcat) THEN WaiGouReLi \o Dash \o source
        ELSE <<>>

Decorate(row, suggested, factor, factor_unit, ghg_type, status, provenance) ==
    [category |-> row.category, subcategory |-> row.subcategory, source |-> row.source,
     facility |-> row.facility, quantity |-> row.quantity, unit |-> row.unit,
     suggested |-> suggested, factor |-> factor, factor_unit |-> factor_unit,
     ghg_type |-> ghg_type, status |-> status, provenance |-> provenance]

\* match_row without the unit assignment of the miss branch
match_row_unit_left_blank(row, lib) ==
    LET key == candidate_key(row.subcategory, row.source)
    IN  IF key # <<>> /\ key \in DOMAIN lib
        THEN Decorate(row, key, lib[key].factor, lib[key].unit, lib[key].ghg_type,
                      Matched, FactorLibrary)
        ELSE Decorate(row, IF key # <<>> THEN key ELSE Unidentified, 0, "",
                      "CO2", Unmatched, PendingManualEntry)

\* one iteration of the matcher loop
match_row(row, lib) ==
    LET key == candidate_key(row.subcategory, row.source)
    IN  IF key # <<>> /\ key \in DOMAIN lib
        THEN Decorate(row, key, lib[key].factor, lib[key].unit, lib[key].ghg_type,
                      Matched, FactorLibrary)
        ELSE Decorate(row, IF key # <<>> THEN key ELSE Unidentified, 0, PendingManualEntry,
                      "CO2", Unmatched, PendingManualEntry)

\* Matcher that, when a result is already stored, keeps its rows and re-labels the
\* unmatched ones
Matcher_second_pass(rows, lib) ==
    [i \in 1..Len(rows) |->
        IF /\ matched_data # None
           /\ i \in 1..Len(Get(matched_data))
           /\ Get(matched_data)[i].status = Unmatched
        THEN [match_row(rows[i], lib) EXCEPT !.suggested = Unidentified]
        ELSE match_row(rows[i], lib)]

\* result_df of the match button
Matcher(rows, lib) == [i \in 1..Len(rows) |-> match_row(rows[i], lib)]

-----------------------------------------------------------------------------
(* Uploaded files *)

\* required_cols of the upload handler
required_cols == {"category", "subcategory", "source", "facility", "quantity", "unit"}

ActivityRow(category, subcategory, source, facility, quantity, unit) ==
    [category |-> category, subcategory |-> subcategory, source |-> source,
     facility |-> facility, quantity |-> quantity, unit |-> unit]

\* The workbooks a user may upload: what pd.read_excel returns for each.
FileNames == {"FileA", "FileBad", "FileEmpty"}
Files ==
    [f \in FileNames |->
        CASE f = "FileA" ->
                [columns |-> required_cols,
                 rows |-> << ActivityRow(Scope1Category, Sub11, TianRanQi, "boiler", 2, "m3"),
                             ActivityRow(Scope2Category, Sub21, ShiZhengDian, "power", 3, "kWh") >>]
          [] f = "FileBad" ->
                [columns |-> required_cols \ {"unit"},
                 rows |-> << [category |-> Scope1Category, subcategory |-> Sub11,
                              source |-> TianRanQi, facility |-> "boiler", quantity |-> 2] >>]
          [] f = "FileEmpty" ->
                [columns |-> required_cols, rows |-> << >>]]

\* `all(col in df.columns for col in required_cols)` for the file in the uploader
FileAccepted(f) == f # NoFile /\ required_cols \subseteq Files[f].columns

-----------------------------------------------------------------------------
(* st.data_editor *)

\* Number of user edits (edited cells, deleted rows) one editor holds at a time.
MaxEdits == 1

\* Widget state: cells maps <<row, column>> to the value typed, deleted holds the
\* rows removed (only the activity editor, num_rows="dynamic", can remove rows).
NoEdits == [cells |-> [c \in {} |-> 0], deleted |-> {}]

EditCount(e) == Cardinality(DOMAIN e.cells) + Cardinality(e.deleted)

RECURSIVE KeptRows(_, _, _)
KeptRows(i, n, deleted) ==
    IF i > n THEN << >>
    ELSE IF i \in deleted THEN KeptRows(i + 1, n, deleted)
    ELSE <<i>> \o KeptRows(i + 1, n, deleted)

EditedRow(row, i, cells) ==
    [f \in DOMAIN row |-> IF <<i, f>> \in DOMAIN cells THEN cells[<<i, f>>] ELSE row[f]]

\* The frame the editor returns: a copy of df with the edits applied.
data_editor(df, e) ==
    LET kept == KeptRows(1, Len(df), e.deleted)
    IN  [k \in 1..Len(kept) |-> EditedRow(df[kept[k]], kept[k], e.cells)]

SetCell(e, i, col, val) ==
    [e EXCEPT !.cells = [c \in (DOMAIN e.cells) \cup {<<i, col>>} |->
                            IF c = <<i, col>> THEN val ELSE e.cells[c]]]

\* A deleted row's cell edits no longer show in the returned frame; they are dropped.
DeleteRow(e, i) ==
    [cells |-> [c \in {d \in DOMAIN e.cells : d[1] # i} |-> e.cells[c]],
     deleted |-> e.deleted \cup {i}]

-----------------------------------------------------------------------------
(* Override reconciler *)

\* reconcile_row comparing with > where the code compares with !=
reconcile_row_only_raised(edited, matched) ==
    IF edited.factor > matched.factor
    THEN [edited EXCEPT !.provenance = ManualOverride, !.status = ManuallyOverridden]
    ELSE IF edited.factor > 0
         THEN IF edited.provenance # ManualOverride
              THEN [edited EXCEPT !.status = Matched]
              ELSE edited
         ELSE edited

\* one iteration of the loop over edited_matched_df.index
reconcile_row(edited, matched) ==
    IF edited.factor # matched.factor
    THEN [edited EXCEPT !.provenance = ManualOverride, !.status = ManuallyOverridden]
    ELSE IF edited.factor > 0
         THEN IF edited.provenance # ManualOverride
              THEN [edited EXCEPT !.status = Matched]
              ELSE edited
         ELSE edited

\* edited_matched_df after the loop (the matched editor keeps the row count)
Reconciler(matched_df, edited_matched_df) ==
    [i \in 1..Len(edited_matched_df) |-> reconcile_row(edited_matched_df[i], matched_df[i])]

-----------------------------------------------------------------------------
(* Decimals: [m, s] is m / 10^s *)

RECURSIVE Pow10(_)
Pow10(n) == IF n = 0 THEN 1 ELSE 10 * Pow10(n - 1)

Max(a, b) == IF a >= b THEN a ELSE b

DecZero == [m |-> 0, s |-> 0]
DecAt(a, s) == a.m * Pow10(s - a.s)
DecAdd(a, b) == LET s == Max(a.s, b.s) IN [m |-> DecAt(a, s) + DecAt(b, s), s |-> s]
DecEq(a, b) == LET s == Max(a.s, b.s) IN DecAt(a, s) = DecAt(b, s)
DecGt(a, b) == LET s == Max(a.s, b.s) IN DecAt(a, s) > DecAt(b, s)
DecDiv1000(a) == [m |-> a.m, s |-> a.s + 3]

-----------------------------------------------------------------------------
(* Step 4: calculation *)

ScopeOne == "ScopeOne"    \* '范围一'
ScopeTwo == "ScopeTwo"    \* '范围二'

\* calc_df['排放量(kgCO2e)'] = 活动数据 * 排放因子
emission_kg(row) == [m |-> row.quantity * row.factor, s |-> FactorDigits]

\* a * b for operands whose product exceeds 32-bit integers:
\* the digits of the product in base 10^FactorDigits, least significant first
WideMul(a, b) ==
    LET B == Pow10(FactorDigits)
        p0 == (a % B) * (b % B)
        p1 == (a \div B) * (b % B) + (a % B) * (b \div B) + (p0 \div B)
        p2 == (a \div B) * (b \div B) + (p1 \div B)
    IN  <<p0 % B, p1 % B, p2>>

\* emission_kg_wide with the factor cut to the two decimals the tables display
emission_kg_wide_two_decimals(row) ==
    [digits |-> WideMul(row.quantity, (row.factor \div 100) * 100), s |-> FactorDigits]

\* calc_df['排放量(kgCO2e)'] at full width: digits / 10^s
emission_kg_wide(row) == [digits |-> WideMul(row.quantity, row.factor), s |-> FactorDigits]

\* calc_df['排放量(tCO2e)'] at full width
emission_tonnes_wide(kg) == [digits |-> kg.digits, s |-> kg.s + 3]

\* calc_df['排放量(tCO2e)'] = 排放量(kgCO2e) / 1000
emission_tonnes(kg) == DecDiv1000(kg)

\* scope_of deciding on the token 间接 instead
scope_of_indirect_token(category) ==
    IF Contains(JianJie, PyStr(category)) THEN ScopeTwo ELSE ScopeOne

\* the lambda of calc_df['范围']
scope_of(category) == IF Contains(ZhiJie, PyStr(category)) THEN ScopeOne ELSE ScopeTwo

calc_row(row) ==
    [f \in (DOMAIN row) \cup {"kg", "tonnes", "scope"} |->
        CASE f = "kg" -> emission_kg(row)
          [] f = "tonnes" -> emission_tonnes(emission_kg(row))
          [] f = "scope" -> scope_of(row.category)
          [] OTHER -> row[f]]

\* step 4 starting from the matcher's frame instead of the reconciled one
step4_input_matched(edited, matched) == IF matched # None THEN Get(matched) ELSE edited

\* the frame step 4 starts from: st.session_state.edited_data.copy()
step4_input(edited, matched) == edited

\* calc_df of step 4
step4_calc(df) == [i \in 1..Len(df) |-> calc_row(df[i])]

calc_row_wide(row) ==
    [f \in (DOMAIN row) \cup {"kg", "tonnes", "scope"} |->
        CASE f = "kg" -> emission_kg_wide(row)
          [] f = "tonnes" -> emission_tonnes_wide(emission_kg_wide(row))
          [] f = "scope" -> scope_of(row.category)
          [] OTHER -> row[f]]

\* calc_df of step 4, at full width
step4_calc_wide(df) == [i \in 1..Len(df) |-> calc_row_wide(df[i])]

-----------------------------------------------------------------------------
(* Step 4: aggregation *)

RECURSIVE SumFrom(_, _, _)
\* sum of the tonnes of the rows of df whose index is in rows
SumFrom(df, i, rows) ==
    IF i > Len(df) THEN [m |-> 0, s |-> FactorDigits + 3]
    ELSE IF i \in rows THEN DecAdd(df[i].tonnes, SumFrom(df, i + 1, rows))
    ELSE SumFrom(df, i + 1, rows)

SumRows(df, rows) == SumFrom(df, 1, rows)

\* calc_df['排放量(tCO2e)'].sum()
total_emission(df) == SumRows(df, 1..Len(df))

\* df.groupby(col)[tonnes].sum(): one bucket per key, rows with a missing key dropped
GroupSum(df, col, missing) ==
    [k \in {df[i][col] : i \in 1..Len(df)} \ missing |->
        SumRows(df, {i \in 1..Len(df) : df[i][col] = k})]

scope_summary(df) == GroupSum(df, "scope", {})
\* scope_summary.get(label, 0)
SeriesGet(series, k) == IF k \in DOMAIN series THEN series[k] ELSE DecZero
scope1(df) == SeriesGet(scope_summary(df), ScopeOne)
scope2(df) == SeriesGet(scope_summary(df), ScopeTwo)

ghg_summary(df) == GroupSum(df, "ghg_type", {NoneCell})
subcat(df) == GroupSum(df, "subcategory", {NaN})

\* Group keys as Python orders them (groupby sorts its keys): strings by code point.
GhgKeyOrder == <<"CH4", "CO2", "HFCs", "N2O">>
SubcategoryKeyOrder ==
    << << >>, Sub11, Sub12, Sub13, Sub14, Sub21, SubTwoCodes, Sub22, SubOther >>

\* .reset_index() of a groupby result: one row per bucket, in key order
reset_index(series, key_order) ==
    LET InSeries(k) == k \in DOMAIN series
        keys == SelectSeq(key_order, InSeries)
    IN  [n \in 1..Len(keys) |-> [key |-> keys[n], tonnes |-> series[keys[n]]]]

\* .sort_values(tonnes, ascending=False): descending, rows with equal tonnes keep
\* the order they have in the frame
sort_values_desc(frame) ==
    LET ahead(i) == {j \in 1..Len(frame) :
                        \/ DecGt(frame[j].tonnes, frame[i].tonnes)
                        \/ DecEq(frame[j].tonnes, frame[i].tonnes) /\ j < i}
    IN  [n \in 1..Len(frame) |->
            frame[CHOOSE i \in 1..Len(frame) : Cardinality(ahead(i)) = n - 1]]

\* ghg_summary and subcat as presented (the slide report's subcat_data is the same
\* frame cut to its first six rows)
ghg_summary_sorted(df) == sort_values_desc(reset_index(ghg_summary(df), GhgKeyOrder))
subcat_sorted(df) == sort_values_desc(reset_index(subcat(df), SubcategoryKeyOrder))

\* the sum of all buckets of a groupby result
RECURSIVE BucketTotal(_, _)
BucketTotal(series, keys) ==
    IF keys = {} THEN [m |-> 0, s |-> FactorDigits + 3]
    ELSE LET k == CHOOSE x \in keys : TRUE
         IN  DecAdd(series[k], BucketTotal(series, keys \ {k}))

SeriesTotal(series) == BucketTotal(series, DOMAIN series)

\* a / b.  A zero divisor that is a numpy float64 gives nan or inf (and a
\* RuntimeWarning); a zero divisor between Python numbers raises ZeroDivisionError.
Divide_python(a, b, b_is_float64) ==
    IF b.m # 0
    THEN [kind |-> "value", num |-> DecAt(a, Max(a.s, b.s)), den |-> DecAt(b, Max(a.s, b.s))]
    ELSE [kind |-> "ZeroDivisionError", num |-> 0, den |-> 0]

Divide(a, b, b_is_float64) ==
    IF b.m # 0
    THEN [kind |-> "value", num |-> DecAt(a, Max(a.s, b.s)), den |-> DecAt(b, Max(a.s, b.s))]
    ELSE IF ~b_is_float64 THEN [kind |-> "ZeroDivisionError", num |-> 0, den |-> 0]
    ELSE IF a.m = 0 THEN [kind |-> "nan", num |-> 0, den |-> 0]
    ELSE [kind |-> "inf", num |-> 0, den |-> 0]

\* a / b * 100
Times100(d) == [d EXCEPT !.num = 100 * d.num]

\* the share printed in the key-insight note of the slide report:
\* max(scope1, scope2)/total_emission*100
ppt_main_share(df) ==
    Times100(Divide(IF DecGt(scope2(df), scope1(df)) THEN scope2(df) ELSE scope1(df),
                    total_emission(df), TRUE))

-----------------------------------------------------------------------------
(* Step 4: the exported workbook, with its formulas evaluated *)

\* str(x) of a cell of a plain-text column
CellText(x) == x

\* sheet row i + 1 of the detail sheet: A = category, J = gas type as text,
\* L = E*H, M = L/1000
detail_row(row) ==
    LET E == row.quantity
        H == row.factor
        L == [m |-> E * H, s |-> FactorDigits]
    IN  [A |-> PyStr(row.category), J |-> CellText(row.ghg_type), L |-> L, M |-> DecDiv1000(L)]

detail_sheet(df) == [i \in 1..Len(df) |-> detail_row(df[i])]

\* The cells of the detail sheet.  A cell is a stored value or a formula over
\* cell references <<column, sheet row>>.
ValueCell(v) == [kind |-> "value", v |-> v]
MulCell(a, b) == [kind |-> "formula", op |-> "mul", a |-> a, b |-> b]
Div1000Cell(a) == [kind |-> "formula", op |-> "div1000", a |-> a, b |-> a]

headers == <<"A", "B", "C", "D", "E", "F", "G", "H", "I", "J", "K", "L", "M">>

\* ws1_row with the two emission cells written as computed values
ws1_row_values(row, row_idx) ==
    [c \in {headers[k] : k \in 1..Len(headers)} |->
        CASE c = "A" -> ValueCell(PyStr(row.category))
          [] c = "B" -> ValueCell(PyStr(row.subcategory))
          [] c = "C" -> ValueCell(PyStr(row.source))
          [] c = "D" -> ValueCell(row.facility)
          [] c = "E" -> ValueCell(row.quantity)
          [] c = "F" -> ValueCell(row.unit)
          [] c = "G" -> ValueCell(row.suggested)
          [] c = "H" -> ValueCell(row.factor)
          [] c = "I" -> ValueCell(row.factor_unit)
          [] c = "J" -> ValueCell(CellText(row.ghg_type))
          [] c = "K" -> ValueCell(row.provenance)
          [] c = "L" -> ValueCell(row.kg)
          [] c = "M" -> ValueCell(row.tonnes)]

\* the cells written for one row of calc_df at sheet row row_idx
ws1_row(row, row_idx) ==
    [c \in {headers[k] : k \in 1..Len(headers)} |->
        CASE c = "A" -> ValueCell(PyStr(row.category))
          [] c = "B" -> ValueCell(PyStr(row.subcategory))
          [] c = "C" -> ValueCell(PyStr(row.source))
          [] c = "D" -> ValueCell(row.facility)
          [] c = "E" -> ValueCell(row.quantity)
          [] c = "F" -> ValueCell(row.unit)
          [] c = "G" -> ValueCell(row.suggested)
          [] c = "H" -> ValueCell(row.factor)
          [] c = "I" -> ValueCell(row.factor_unit)
          [] c = "J" -> ValueCell(CellText(row.ghg_type))
          [] c = "K" -> ValueCell(row.provenance)
          [] c = "L" -> MulCell(<<"E", row_idx>>, <<"H", row_idx>>)
          [] c = "M" -> Div1000Cell(<<"L", row_idx>>)]

\* the data rows of the sheet: enumerate(calc_df.iterrows(), 2)
ws1(df) == [row_idx \in 2..(Len(df) + 1) |-> ws1_row(df[row_idx - 1], row_idx)]

\* the number a spreadsheet shows for a cell of columns E, H, L, M (a factor in H
\* counts 1/10^FactorDigits)
RECURSIVE CellValue(_, _)
CellValue(ws, ref) ==
    LET cell == ws[ref[2]][ref[1]]
    IN  IF cell.kind = "value"
        THEN IF ref[1] = "E" THEN [m |-> cell.v, s |-> 0]
             ELSE IF ref[1] = "H" THEN [m |-> cell.v, s |-> FactorDigits]
             ELSE cell.v
        ELSE IF cell.op = "mul"
             THEN LET x == CellValue(ws, cell.a)
                      y == CellValue(ws, cell.b)
                  IN  [m |-> x.m * y.m, s |-> x.s + y.s]
             ELSE DecDiv1000(CellValue(ws, cell.a))

RECURSIVE SumM(_, _, _)
SumM(sheet, i, rows) ==
    IF i > Len(sheet) THEN [m |-> 0, s |-> FactorDigits + 3]
    ELSE IF i \in rows THEN DecAdd(sheet[i].M, SumM(sheet, i + 1, rows))
    ELSE SumM(sheet, i + 1, rows)

\* =SUMIF(A2:A{last_row}, "*<token>*", M2:M{last_row})
SumIfContains(sheet, token) ==
    SumM(sheet, 1, {i \in 1..Len(sheet) : Contains(token, sheet[i].A)})

\* =SUMIF(J2:J{last_row}, "<ghg>", M2:M{last_row})
SumIfGas(sheet, ghg) ==
    SumM(sheet, 1, {i \in 1..Len(sheet) : sheet[i].J = CellText(ghg)})

excel_B4(df) == SumIfContains(detail_sheet(df), ZhiJie)
excel_B5(df) == SumIfContains(detail_sheet(df), JianJie)
excel_B6(df) == DecAdd(excel_B4(df), excel_B5(df))

\* calc_df['温室气体类型'].unique(): a missing value is one of the values
ghg_types(df) == {df[i].ghg_type : i \in 1..Len(df)}
excel_gas(df) == [g \in ghg_types(df) |-> SumIfGas(detail_sheet(df), g)]

-----------------------------------------------------------------------------
(* Step 4: percentages.  A percentage is a Divide record whose value is num/den. *)

ZeroPct == [kind |-> "value", num |-> 0, den |-> 1]

\* `a/total*100 if total > 0 else 0` (summary cards, slide cards) and the sheet
\* formula =IF(total>0, a/total*100, 0)
guarded_pct(a, total) ==
    IF DecGt(total, DecZero) THEN Times100(Divide(a, total, TRUE)) ELSE ZeroPct

\* `a/total_emission*100` as the slide report's table and analysis text write it
unguarded_pct(a, total) == Times100(Divide(a, total, TRUE))

\* the two scope percentages of the summary cards
card_pct(df) ==
    [k \in {ScopeOne, ScopeTwo} |->
        guarded_pct(IF k = ScopeOne THEN scope1(df) ELSE scope2(df), total_emission(df))]

\* 排放汇总!C4 and C5
excel_C4(df) == guarded_pct(excel_B4(df), excel_B6(df))
excel_C5(df) == guarded_pct(excel_B5(df), excel_B6(df))

\* 温室气体分析 column C
excel_gas_pct(df) == [g \in ghg_types(df) |-> guarded_pct(excel_gas(df)[g], excel_B6(df))]

\* cards_data of the slide report
ppt_card_pct(df) == card_pct(df)

\* the 占比 column of the slide report's subcategory table
ppt_subcat_pct(df) ==
    [k \in DOMAIN subcat(df) |-> unguarded_pct(subcat(df)[k], total_emission(df))]

\* the gas-type lines of the slide report's analysis text
ppt_ghg_pct(df) ==
    [g \in DOMAIN ghg_summary(df) |-> unguarded_pct(ghg_summary(df)[g], total_emission(df))]

-----------------------------------------------------------------------------
(* One run of the script *)

\* match_rate giving 0 for an empty table
match_rate_guarded(matched_df) ==
    IF Len(matched_df) = 0 THEN ZeroPct
    ELSE Times100(Divide([m |-> Cardinality({i \in 1..Len(matched_df) :
                                                matched_df[i].status = Matched}), s |-> 0],
                         [m |-> Len(matched_df), s |-> 0], FALSE))

\* matched/total*100 of the metrics row: two Python ints
match_rate(matched_df) ==
    Times100(Divide([m |-> Cardinality({i \in 1..Len(matched_df) :
                                           matched_df[i].status = Matched}), s |-> 0],
                    [m |-> Len(matched_df), s |-> 0], FALSE))

\* The session state one run of the script leaves, given the widget values it
\* reads: the file in the uploader, the state of the two editors, and which of
\* the match and confirm buttons was clicked.
Run(file, up_edits, lib, click_match, m_edits, click_confirm) ==
    LET accepted == FileAccepted(file)
        \* st.session_state.uploaded_data = edited_upload_df
        up == IF accepted THEN Some(data_editor(Files[file].rows, up_edits))
              ELSE uploaded_data
        \* st.session_state.matched_data = result_df
        md == IF accepted /\ click_match THEN Some(Matcher(Get(up), lib))
              ELSE matched_data
        block == accepted /\ md # None
        \* matched/total*100 with total = 0 raises; the except clause reports it
        zero_rows == block /\ match_rate(Get(md)).kind = "ZeroDivisionError"
        rendered == block /\ ~zero_rows
        \* the editor keeps its edits while it is drawn over the same frame
        me == IF rendered /\ md = matched_data THEN m_edits ELSE NoEdits
        \* st.session_state.edited_data = edited_matched_df
        ed == IF rendered THEN Some(Reconciler(Get(md), data_editor(Get(md), me)))
              ELSE edited_data
        done == calculation_done \/ (rendered /\ click_confirm)
    IN  [uploaded_data |-> up,
         upload_edits |-> IF accepted THEN up_edits ELSE NoEdits,
         matched_data |-> md,
         matched_edits |-> me,
         edited_data |-> ed,
         calculation_done |-> done,
         calc_df |-> IF done /\ ed # None THEN Some(step4_calc(step4_input(Get(ed), md))) ELSE None,
         error |-> IF file # NoFile /\ ~accepted THEN "format"
                   ELSE IF zero_rows THEN "read_failed"
                   ELSE "none"]

Apply(r) ==
    /\ uploaded_data' = r.uploaded_data
    /\ upload_edits' = r.upload_edits
    /\ matched_data' = r.matched_data
    /\ matched_edits' = r.matched_edits
    /\ edited_data' = r.edited_data
    /\ calculation_done' = r.calculation_done
    /\ calc_df' = r.calc_df
    /\ error' = r.error

\* The matched-data editor and the confirm button are on the page.
MatchedBlockShown ==
    /\ FileAccepted(uploaded_file)
    /\ matched_data # None
    /\ Len(Get(matched_data)) > 0

-----------------------------------------------------------------------------
(* User actions *)

Init ==
    /\ emission_factors = SeedLibrary
    /\ uploaded_file = NoFile
    /\ upload_edits = NoEdits
    /\ uploaded_data = None
    /\ matched_data = None
    /\ matched_edits = NoEdits
    /\ edited_data = None
    /\ calculation_done = FALSE
    /\ calc_df = None
    /\ error = "none"
    /\ library_at_match = SeedLibrary

\* The values typed into the sidebar form.
AddNames == {<<>>, GuDingRanShao \o Dash \o ShengWuZhi}
AddFactors == {0, 25000}
AddUnits == {"kgCO2/kg"}
AddGhgs == {"CH4"}

\* click on the add button of the sidebar
AddFactorFrom(names, factors, units, ghgs) ==
    \E new_name \in names, new_factor \in factors, new_unit \in units, new_ghg \in ghgs :
        /\ emission_factors' =
               add_factor(emission_factors, new_name, new_factor, new_unit, new_ghg)
        /\ Apply(Run(uploaded_file, upload_edits, emission_factors', FALSE,
                     matched_edits, FALSE))
        /\ UNCHANGED <<uploaded_file, library_at_match>>

AddFactor == AddFactorFrom(AddNames, AddFactors, AddUnits, AddGhgs)

\* a file is dropped into the uploader, replacing the one it held
Upload ==
    \E f \in FileNames \ {uploaded_file} :
        /\ uploaded_file' = f
        /\ Apply(Run(f, NoEdits, emission_factors, FALSE, matched_edits, FALSE))
        /\ UNCHANGED <<emission_factors, library_at_match>>

\* the file is removed from the uploader
RemoveFile ==
    /\ uploaded_file # NoFile
    /\ uploaded_file' = NoFile
    /\ Apply(Run(NoFile, NoEdits, emission_factors, FALSE, matched_edits, FALSE))
    /\ UNCHANGED <<emission_factors, library_at_match>>

\* The cell values typed into the activity editor.
UploadSourceInputs == {ShengWuZhi}

UploadEditsAfter(e, df) ==
    LET live == (1..Len(df)) \ e.deleted
    IN  {n \in {SetCell(e, i, "source", v) : i \in live, v \in UploadSourceInputs}
                \cup {DeleteRow(e, i) : i \in live} :
            n # e /\ EditCount(n) <= MaxEdits}

\* a cell of the activity table is edited, or a row of it removed
EditUpload ==
    /\ FileAccepted(uploaded_file)
    /\ \E e \in UploadEditsAfter(upload_edits, Files[uploaded_file].rows) :
            Apply(Run(uploaded_file, e, emission_factors, FALSE, matched_edits, FALSE))
    /\ UNCHANGED <<emission_factors, uploaded_file, library_at_match>>

\* click on the match button
Match ==
    /\ FileAccepted(uploaded_file)
    /\ Apply(Run(uploaded_file, upload_edits, emission_factors, TRUE, matched_edits, FALSE))
    /\ library_at_match' = emission_factors
    /\ UNCHANGED <<emission_factors, uploaded_file>>

\* The cell values typed into the matched-data editor (the factor column takes
\* numbers >= 0; every column is editable).
FactorInputs == {0, 25000}

MatchedEditsAfter(e, df) ==
    {n \in {SetCell(e, i, "factor", v) :
                i \in 1..Len(df), v \in FactorInputs \cup {df[j].factor : j \in 1..Len(df)}}
           \cup {SetCell(e, i, "provenance", ManualOverride) : i \in 1..Len(df)} :
        n # e /\ EditCount(n) <= MaxEdits}

\* a cell of the matched table is edited
EditMatched ==
    /\ MatchedBlockShown
    /\ \E e \in MatchedEditsAfter(matched_edits, Get(matched_data)) :
            Apply(Run(uploaded_file, upload_edits, emission_factors, FALSE, e, FALSE))
    /\ UNCHANGED <<emission_factors, uploaded_file, library_at_match>>

\* a confirm button that sits outside the matched-data block
Confirm_outside_block ==
    /\ calculation_done' = TRUE
    /\ calc_df' = IF edited_data # None
                  THEN Some(step4_calc(step4_input(Get(edited_data), matched_data)))
                  ELSE None
    /\ UNCHANGED <<emission_factors, uploaded_file, upload_edits, uploaded_data, matched_data,
                   matched_edits, edited_data, error, library_at_match>>

\* click on the confirm button
Confirm ==
    /\ MatchedBlockShown
    /\ Apply(Run(uploaded_file, upload_edits, emission_factors, FALSE, matched_edits, TRUE))
    /\ UNCHANGED <<emission_factors, uploaded_file, library_at_match>>

Next ==
    \/ AddFactor
    \/ Upload
    \/ RemoveFile
    \/ EditUpload
    \/ Match
    \/ EditMatched
    \/ Confirm

Spec == Init /\ [][Next]_vars

-----------------------------------------------------------------------------
(* The Matcher on its own: any row against any library the sidebar can build *)

MatchSubcategories ==
    {Sub11, Sub12, Sub13, Sub14, Sub21, Sub22, SubTwoCodes, SubOther, << >>, NaN}
MatchSources ==
    {TianRanQi, ShengWuZhi, QiYou, ShiZhengDian, QuanGuoPingJun, HuaBei, ZhengQi, R410A,
     << >>, NaN}

InitMatch ==
    /\ emission_factors = SeedLibrary
    /\ uploaded_file = NoFile
    /\ upload_edits = NoEdits
    /\ \E sc \in MatchSubcategories, src \in MatchSources :
          uploaded_data = Some(<< ActivityRow(Scope1Category, sc, src, "boiler", 2, "kg") >>)
    /\ matched_data = None
    /\ matched_edits = NoEdits
    /\ edited_data = None
    /\ calculation_done = FALSE
    /\ calc_df = None
    /\ error = "none"
    /\ library_at_match = SeedLibrary

WideAddNames ==
    {<<>>, GuDingRanShao \o Dash \o ShengWuZhi, GuDingRanShao \o Dash \o TianRanQi,
     GuDingRanShao \o Dash \o PyStr(NaN),
     WaiGouDianLi \o Dash \o ShiZhengDian, Unidentified}

WideAddUnits == {"", "kgCO2/kg"}

AddFactorWide == AddFactorFrom(WideAddNames, AddFactors, WideAddUnits, AddGhgs)

\* MatcherRun that also stores each row's suggested key in the library
MatcherRun_caching ==
    /\ uploaded_data # None
    /\ matched_data' = Some(Matcher(Get(uploaded_data), emission_factors))
    /\ library_at_match' = emission_factors
    /\ emission_factors' =
           DictPut(emission_factors, Get(matched_data')[1].suggested,
                   [factor |-> Get(matched_data')[1].factor,
                    unit |-> Get(matched_data')[1].factor_unit,
                    ghg_type |-> Get(matched_data')[1].ghg_type])
    /\ UNCHANGED <<uploaded_file, upload_edits, uploaded_data,
                   matched_edits, edited_data, calculation_done, calc_df, error>>

\* the body of the match button's handler, on the table in uploaded_data
MatcherRun ==
    /\ uploaded_data # None
    /\ matched_data' = Some(Matcher(Get(uploaded_data), emission_factors))
    /\ library_at_match' = emission_factors
    /\ UNCHANGED <<emission_factors, uploaded_file, upload_edits, uploaded_data,
                   matched_edits, edited_data, calculation_done, calc_df, error>>

NextMatch == AddFactorWide \/ MatcherRun

SpecMatch == InitMatch /\ [][NextMatch]_vars

-----------------------------------------------------------------------------
(* Step 4 on its own: any reconciled table *)

\* Rows of the table step 4 computes from.
MaxCalcRows == 2

CalcCategories == {Scope1Category, Scope2Category, OtherCategory, BothCategory}
CalcSubcategories == {Sub11, NaN}
CalcGases == {"CO2", "CH4", NoneCell}
CalcAmounts == {<<0, 25000>>, <<2, 0>>, <<2, 25000>>}

CalcRows ==
    {[category |-> c, subcategory |-> sc, source |-> TianRanQi, facility |-> "boiler",
      quantity |-> qf[1], unit |-> "kg", suggested |-> GuDingRanShao \o Dash \o TianRanQi,
      factor |-> qf[2], factor_unit |-> "kgCO2/kg", ghg_type |-> g,
      status |-> ManuallyOverridden, provenance |-> ManualOverride] :
        c \in CalcCategories, sc \in CalcSubcategories, g \in CalcGases, qf \in CalcAmounts}

CalcTables == UNION {[1..n -> CalcRows] : n \in 1..MaxCalcRows}

InitCalc ==
    /\ emission_factors = SeedLibrary
    /\ uploaded_file = NoFile
    /\ upload_edits = NoEdits
    /\ uploaded_data = None
    /\ matched_data = None
    /\ matched_edits = NoEdits
    /\ \E t \in CalcTables : edited_data = Some(t)
    /\ calculation_done = TRUE
    /\ calc_df = None
    /\ error = "none"
    /\ library_at_match = SeedLibrary

\* the step-4 block of a run
Step4 ==
    /\ calculation_done /\ edited_data # None
    /\ calc_df = None
    /\ calc_df' = Some(step4_calc(step4_input(Get(edited_data), matched_data)))
    /\ UNCHANGED <<emission_factors, uploaded_file, upload_edits, uploaded_data, matched_data,
                   matched_edits, edited_data, calculation_done, error, library_at_match>>

NextCalc == Step4

SpecCalc == InitCalc /\ [][NextCalc]_vars

-----------------------------------------------------------------------------
(* The rows of the downloadable template, with their real quantities *)

\* 活动数据 of create_template (the whole-number ones)
TemplateQuantities == {1239138, 11010, 792}
\* 类别: the template's two, one with neither token, one with both, a missing cell
ExampleCategories == {Scope1Category, Scope2Category, OtherCategory, BothCategory, NaN}

InitExample ==
    /\ emission_factors = SeedLibrary
    /\ uploaded_file = NoFile
    /\ upload_edits = NoEdits
    /\ \E c \in ExampleCategories, sc \in MatchSubcategories, src \in MatchSources,
          q \in TemplateQuantities :
          uploaded_data = Some(<< ActivityRow(c, sc, src, "boiler", q, "m3") >>)
    /\ matched_data = None
    /\ matched_edits = NoEdits
    /\ edited_data = None
    /\ calculation_done = FALSE
    /\ calc_df = None
    /\ error = "none"
    /\ library_at_match = SeedLibrary

\* click on the match button: the Matcher, then the reconciler over an untouched editor
MatchExample ==
    /\ uploaded_data # None /\ matched_data = None
    /\ matched_data' = Some(Matcher(Get(uploaded_data), emission_factors))
    /\ edited_data' = Some(Reconciler(Get(matched_data'), data_editor(Get(matched_data'), NoEdits)))
    /\ library_at_match' = emission_factors
    /\ UNCHANGED <<emission_factors, uploaded_file, upload_edits, uploaded_data,
                   matched_edits, calculation_done, calc_df, error>>

\* click on the confirm button: step 4
ConfirmExample ==
    /\ edited_data # None /\ ~calculation_done
    /\ calculation_done' = TRUE
    /\ calc_df' = Some(step4_calc_wide(step4_input(Get(edited_data), matched_data)))
    /\ UNCHANGED <<emission_factors, uploaded_file, upload_edits, uploaded_data, matched_data,
                   matched_edits, edited_data, error, library_at_match>>

NextExample == MatchExample \/ ConfirmExample

SpecExample == InitExample /\ [][NextExample]_vars

-----------------------------------------------------------------------------
(* Properties *)

\* the frame the matched-data editor returns in the current page
EditorOutput == data_editor(Get(matched_data), matched_edits)

\* C1: the Matcher gives every row exactly one of Matched and Unmatched: Matched,
\* from the factor library, with the library entry's factor, unit and gas type,
\* exactly when the candidate key is non-empty and in the library; otherwise
\* Unmatched, pending manual entry, factor 0, the pending unit and gas CO2.
C1_LookupTotality ==
    matched_data # None =>
        \A i \in 1..Len(Get(matched_data)) :
            LET m == Get(matched_data)[i]
                lib == library_at_match
                key == candidate_key(m.subcategory, m.source)
                hit == key # <<>> /\ key \in DOMAIN lib
            IN  /\ m.status \in {Matched, Unmatched}
                /\ hit <=> m.status = Matched
                /\ hit => /\ m.provenance = FactorLibrary
                          /\ m.factor = lib[key].factor
                          /\ m.factor_unit = lib[key].unit
                          /\ m.ghg_type = lib[key].ghg_type
                /\ ~hit => /\ m.provenance = PendingManualEntry
                           /\ m.factor = 0
                           /\ m.factor_unit = PendingManualEntry
                           /\ m.ghg_type = "CO2"

\* a row matched against an entry added at run time, and the library changed again after
C1_Witness ==
    /\ matched_data # None
    /\ Get(matched_data)[1].status = Matched
    /\ Get(matched_data)[1].suggested = GuDingRanShao \o Dash \o ShengWuZhi
    /\ Get(matched_data)[1].factor = 25000
    /\ Get(matched_data)[1].ghg_type = "CH4"

RowInvariant(r, lib) ==
    /\ r.status = Matched =>
          /\ r.provenance = FactorLibrary
          /\ r.suggested \in DOMAIN lib
          /\ r.factor = lib[r.suggested].factor
    /\ r.status = ManuallyOverridden => r.provenance = ManualOverride
    /\ r.status = Unmatched => r.factor = 0

\* C2: in every state every row of the matched table and of the reconciled table
\* has: Matched => from the factor library with the factor copied at match time;
\* ManuallyOverridden => provenance manual override; Unmatched => factor 0.
C2_StatusProvenanceInvariant ==
    /\ matched_data # None =>
          \A i \in 1..Len(Get(matched_data)) :
              RowInvariant(Get(matched_data)[i], library_at_match)
    /\ MatchedBlockShown =>
          \A i \in 1..Len(Get(edited_data)) :
              RowInvariant(Get(edited_data)[i], library_at_match)

\* C3: in a reconciliation pass a row whose edited factor differs from the value
\* in matched_data ends ManuallyOverridden with provenance manual override; a row
\* whose factor does not differ, is > 0 and whose provenance is not manual override
\* ends Matched; a row whose factor does not differ is not flagged by the pass.
C3_ReconcilerRule ==
    MatchedBlockShown =>
        \A i \in 1..Len(Get(edited_data)) :
            LET m == Get(matched_data)[i]
                e == EditorOutput[i]
                r == Get(edited_data)[i]
            IN  /\ e.factor # m.factor =>
                      r.provenance = ManualOverride /\ r.status = ManuallyOverridden
                /\ (e.factor = m.factor /\ e.factor > 0 /\ e.provenance # ManualOverride) =>
                      r.status = Matched
                /\ e.factor = m.factor =>
                      /\ r.provenance = e.provenance
                      /\ r.status # ManuallyOverridden \/ e.status = ManuallyOverridden
                /\ r.factor = e.factor

\* a matched row edited to factor 0, and an unmatched row edited away from 0
C3_Witness ==
    /\ MatchedBlockShown
    /\ \E i \in 1..Len(Get(edited_data)) :
          /\ Get(matched_data)[i].status = Matched
          /\ EditorOutput[i].factor = 0
          /\ Get(edited_data)[i].status = ManuallyOverridden

Ratio(b, t) == Divide(b, t, TRUE)
SameShare(b1, t1, b2, t2) ==
    LET x == IF DecGt(t1, DecZero) THEN Ratio(b1, t1) ELSE Ratio(DecZero, [m |-> 1, s |-> 0])
        y == IF DecGt(t2, DecZero) THEN Ratio(b2, t2) ELSE Ratio(DecZero, [m |-> 1, s |-> 0])
    IN  x.num * y.den = y.num * x.den

\* C4: the exported summary formulas, evaluated, give the in-memory summary: the
\* two SUMIF scope cells and their sum equal scope one, scope two and the total,
\* and every gas-type row's sum and share equal the in-memory gas bucket and share.
C4_FormulaValueEquivalence ==
    calc_df # None =>
        LET df == Get(calc_df)
        IN  /\ DecEq(excel_B4(df), scope1(df))
            /\ DecEq(excel_B5(df), scope2(df))
            /\ DecEq(excel_B6(df), total_emission(df))
            /\ \A g \in ghg_types(df) :
                  /\ g \in DOMAIN ghg_summary(df)
                  /\ DecEq(excel_gas(df)[g], ghg_summary(df)[g])
                  /\ SameShare(excel_gas(df)[g], excel_B6(df),
                               ghg_summary(df)[g], total_emission(df))

\* C5: the scope buckets, the gas-type buckets and the subcategory buckets each
\* sum to the total tonnes.
C5_PartitionLaw ==
    calc_df # None =>
        LET df == Get(calc_df)
        IN  /\ DecEq(SeriesTotal(scope_summary(df)), total_emission(df))
            /\ DecEq(SeriesTotal(ghg_summary(df)), total_emission(df))
            /\ DecEq(SeriesTotal(subcat(df)), total_emission(df))

\* C6: whenever step-4 results are shown there is one computed row per row of the
\* current activity table, with that row's category, subcategory, source and quantity.
C6_ResultsFromCurrentInputs ==
    calc_df # None =>
        /\ uploaded_data # None
        /\ Len(Get(calc_df)) = Len(Get(uploaded_data))
        /\ \A i \in 1..Len(Get(calc_df)) :
              LET c == Get(calc_df)[i]
                  u == Get(uploaded_data)[i]
              IN  /\ c.category = u.category
                  /\ c.subcategory = u.subcategory
                  /\ c.source = u.source
                  /\ c.quantity = u.quantity

IsOverridden(table, i) ==
    /\ table # None
    /\ i \in 1..Len(Get(table))
    /\ Get(table)[i].status = ManuallyOverridden
    /\ Get(table)[i].provenance = ManualOverride

\* C7: a row the reconciler classified ManuallyOverridden stays ManuallyOverridden
\* in every step that is not a Matcher run, and a Matcher run stores no
\* ManuallyOverridden row.
C7_OverrideSticky ==
    [][ /\ Match => \A i \in 1..2 : ~IsOverridden(matched_data', i)
        /\ ~Match => \A i \in 1..2 : IsOverridden(edited_data, i) => IsOverridden(edited_data', i)
      ]_vars

RECURSIVE SumProducts(_, _)
SumProducts(rows, i) ==
    IF i > Len(rows) THEN 0 ELSE rows[i].quantity * rows[i].factor + SumProducts(rows, i + 1)

\* C8: for every row a reconciliation pass classifies ManuallyOverridden, the
\* emission computed in that pass is quantity times the edited factor, and the
\* table computed from is the reconciler's output of that pass.
C8_OverrideUsedInPass ==
    (calc_df # None /\ MatchedBlockShown) =>
        LET m == Get(matched_data)
            e == EditorOutput
            df == Get(calc_df)
        IN  /\ Len(df) = Len(e)
            /\ \A i \in 1..Len(df) :
                  /\ df[i].status = Get(edited_data)[i].status
                  /\ e[i].factor # m[i].factor =>
                        /\ df[i].status = ManuallyOverridden
                        /\ df[i].kg = [m |-> e[i].quantity * e[i].factor, s |-> FactorDigits]
                        /\ df[i].tonnes = [m |-> e[i].quantity * e[i].factor, s |-> FactorDigits + 3]
            /\ DecEq(total_emission(df), [m |-> SumProducts(e, 1), s |-> FactorDigits + 3])

\* results on the page computed with a factor raised by the user
C8_Witness ==
    /\ calc_df # None /\ MatchedBlockShown
    /\ \E i \in 1..Len(Get(calc_df)) :
          /\ Get(matched_data)[i].factor = 21622
          /\ EditorOutput[i].factor = 25000
          /\ Get(calc_df)[i].kg.m = 50000

\* C9: while a rejected upload is the file in the uploader, no calculation result
\* is on the page.
C9_RejectedUploadShowsNothing ==
    (uploaded_file # NoFile /\ ~FileAccepted(uploaded_file)) => calc_df = None

\* C10: a row with quantity 0 or factor 0 has 0 kg and 0 tonnes, adds nothing to the
\* total or to any bucket, and no division of step 4 raises.
C10_ZeroRows ==
    calc_df # None =>
        LET df == Get(calc_df)
            rest == {i \in 1..Len(df) : df[i].quantity # 0 /\ df[i].factor # 0}
        IN  /\ \A i \in (1..Len(df)) \ rest : df[i].kg.m = 0 /\ df[i].tonnes.m = 0
            /\ DecEq(total_emission(df), SumRows(df, rest))
            /\ \A k \in DOMAIN scope_summary(df) :
                  DecEq(scope_summary(df)[k], SumRows(df, {i \in rest : df[i].scope = k}))
            /\ \A k \in DOMAIN ghg_summary(df) :
                  DecEq(ghg_summary(df)[k], SumRows(df, {i \in rest : df[i].ghg_type = k}))
            /\ \A k \in DOMAIN subcat(df) :
                  DecEq(subcat(df)[k], SumRows(df, {i \in rest : df[i].subcategory = k}))
            /\ ppt_main_share(df).kind # "ZeroDivisionError"

\* a table in which every row has quantity 0 or factor 0
C10_Witness ==
    /\ calc_df # None
    /\ Len(Get(calc_df)) = 2
    /\ Get(calc_df)[1].quantity = 0 /\ Get(calc_df)[1].factor = 25000
    /\ Get(calc_df)[2].quantity = 2 /\ Get(calc_df)[2].factor = 0
    /\ total_emission(Get(calc_df)).m = 0
    /\ ppt_main_share(Get(calc_df)).kind = "nan"

\* p is the number b / t x 100 (as the fraction num/den), or 0 when t is 0
PctIs(p, b, t) ==
    /\ p.kind = "value"
    /\ IF DecGt(t, DecZero)
       THEN p.num = 100 * DecAt(b, Max(b.s, t.s)) /\ p.den = DecAt(t, Max(b.s, t.s))
       ELSE p.num = 0

\* C11: every percentage derived from a bucket is bucket / total x 100 when the
\* total is > 0 and is 0 when the total is 0, and none divides by a zero total:
\* the summary cards, the percentage cells of the scope and gas-type sheets, and
\* the scope, subcategory and gas-type percentages of the slide report.
C11_PercentagesGuarded ==
    calc_df # None =>
        LET df == Get(calc_df)
            total == total_emission(df)
        IN  /\ PctIs(card_pct(df)[ScopeOne], scope1(df), total)
            /\ PctIs(card_pct(df)[ScopeTwo], scope2(df), total)
            /\ PctIs(excel_C4(df), excel_B4(df), excel_B6(df))
            /\ PctIs(excel_C5(df), excel_B5(df), excel_B6(df))
            /\ \A g \in ghg_types(df) :
                  PctIs(excel_gas_pct(df)[g], excel_gas(df)[g], excel_B6(df))
            /\ PctIs(ppt_card_pct(df)[ScopeOne], scope1(df), total)
            /\ PctIs(ppt_card_pct(df)[ScopeTwo], scope2(df), total)
            /\ PctIs(ppt_main_share(df),
                     IF DecGt(scope2(df), scope1(df)) THEN scope2(df) ELSE scope1(df), total)
            /\ \A k \in DOMAIN subcat(df) : PctIs(ppt_subcat_pct(df)[k], subcat(df)[k], total)
            /\ \A g \in DOMAIN ghg_summary(df) :
                  PctIs(ppt_ghg_pct(df)[g], ghg_summary(df)[g], total)


\* the computed row of the template's natural-gas line
IsGasExample(r) ==
    /\ Contains(ZhiJie, r.category)
    /\ r.subcategory = Sub11
    /\ r.source = TianRanQi
    /\ r.quantity = 1239138

\* C12 (as stated): for the direct-category row 1.1 固定燃烧 / 天然气 / 1239138 matched
\* against the seeded library, the key is 固定燃烧-天然气, the factor 2.1622, the
\* emission in kg starts 2679009, the tonnes are 2679.01 to two decimals, and the
\* scope is ScopeOne.
C12_ExampleAsStated ==
    calc_df # None =>
        \A i \in 1..Len(Get(calc_df)) :
            LET r == Get(calc_df)[i]
            IN  IsGasExample(r) =>
                    /\ r.suggested = GuDingRanShao \o Dash \o TianRanQi
                    /\ r.factor = 21622
                    /\ r.kg.digits[3] * Pow10(FactorDigits) + r.kg.digits[2] = 2679009
                    /\ (r.tonnes.digits[3] * Pow10(FactorDigits) + r.tonnes.digits[2]) \div 10
                          = 267901
                    /\ r.scope = ScopeOne

\* C12 (amended): for that row the key is 固定燃烧-天然气, the factor 2.1622, the
\* emission is 1239138 x 2.1622 = 2679264.1836 kg, the tonnes are 2679.2641836
\* (2679.26 to two decimals), and the scope is ScopeOne.
C12_Example ==
    calc_df # None =>
        \A i \in 1..Len(Get(calc_df)) :
            LET r == Get(calc_df)[i]
            IN  IsGasExample(r) =>
                    /\ r.suggested = GuDingRanShao \o Dash \o TianRanQi
                    /\ r.factor = 21622
                    /\ r.status = Matched
                    /\ r.kg = [digits |-> <<1836, 9264, 267>>, s |-> 4]
                    /\ r.tonnes = [digits |-> <<1836, 9264, 267>>, s |-> 7]
                    /\ (r.tonnes.digits[3] * Pow10(FactorDigits) + r.tonnes.digits[2]) \div 10
                          = 267926
                    /\ r.scope = ScopeOne

\* the natural-gas line matched and computed
C12_Witness ==
    /\ calc_df # None
    /\ IsGasExample(Get(calc_df)[1])
    /\ Get(calc_df)[1].status = Matched
    /\ Get(calc_df)[1].kg.digits = <<1836, 9264, 267>>

\* a cell that is empty: missing in the workbook, or the empty string
IsEmptyCell(cell) == cell = NaN \/ cell = << >>

\* C13: whatever entries have been added to the library, the Matcher classifies a
\* row whose source is empty or whose subcategory is empty as Unmatched, factor 0.
C13_EmptyCellsUnmatched ==
    matched_data # None =>
        \A i \in 1..Len(Get(matched_data)) :
            LET m == Get(matched_data)[i]
            IN  (IsEmptyCell(m.source) \/ IsEmptyCell(m.subcategory)) =>
                    m.status = Unmatched /\ m.factor = 0

LibraryWellFormed(lib) ==
    /\ DOMAIN SeedLibrary \subseteq DOMAIN lib
    /\ \A k \in DOMAIN lib : lib[k].factor > 0 /\ lib[k].ghg_type \in GhgOptions

\* what a click on the add button does to the library lib
AddContract(lib) ==
    \A n \in WideAddNames, f \in AddFactors, u \in WideAddUnits, g \in GhgOptions :
        LET after == add_factor(lib, n, f, u, g)
        IN  IF n = << >> \/ u = "" \/ ~(f > 0)
            THEN after = lib
            ELSE /\ DOMAIN after = (DOMAIN lib) \cup {n}
                 /\ after[n] = [factor |-> f, unit |-> u, ghg_type |-> g]
                 /\ \A k \in (DOMAIN lib) \ {n} : after[k] = lib[k]
                 /\ LibraryWellFormed(after)

\* C14: in every state the library is a map from keys to entries with factor > 0
\* and a gas type of the fixed enumeration, holding every seed key; no step removes
\* a key; an add with an existing key replaces that entry only, and an add with an
\* empty name, an empty unit or a factor not > 0 leaves the library unchanged.
C14_LibraryInvariant ==
    /\ [](LibraryWellFormed(emission_factors) /\ AddContract(emission_factors))
    /\ [][DOMAIN emission_factors \subseteq DOMAIN emission_factors']_vars

\* a seed entry replaced and a new key added, after rejected adds
C14_Witness ==
    /\ emission_factors[GuDingRanShao \o Dash \o TianRanQi] =
           [factor |-> 25000, unit |-> "kgCO2/kg", ghg_type |-> "CH4"]
    /\ GuDingRanShao \o Dash \o ShengWuZhi \in DOMAIN emission_factors
    /\ Cardinality(DOMAIN emission_factors) = Len(SeedEntries) + 1

\* C15: computed row i (from 1) is sheet row i + 1 of the detail sheet, 13 columns:
\* A..K hold the row's inputs as values (quantity in E, factor in H, as they are),
\* L is the formula E{r}*H{r} and M the formula L{r}/1000 of that same sheet row,
\* and L and M evaluate to the row's in-memory kg and tonnes.
C15_DetailSheet ==
    calc_df # None =>
        LET df == Get(calc_df)
            ws == ws1(df)
        IN  /\ DOMAIN ws = 2..(Len(df) + 1)
            /\ \A i \in 1..Len(df) :
                  LET r == i + 1
                  IN  /\ Cardinality(DOMAIN ws[r]) = 13
                      /\ \A c \in (DOMAIN ws[r]) \ {"L", "M"} : ws[r][c].kind = "value"
                      /\ ws[r]["A"].v = PyStr(df[i].category)
                      /\ ws[r]["B"].v = PyStr(df[i].subcategory)
                      /\ ws[r]["C"].v = PyStr(df[i].source)
                      /\ ws[r]["D"].v = df[i].facility
                      /\ ws[r]["E"].v = df[i].quantity
                      /\ ws[r]["F"].v = df[i].unit
                      /\ ws[r]["G"].v = df[i].suggested
                      /\ ws[r]["H"].v = df[i].factor
                      /\ ws[r]["I"].v = df[i].factor_unit
                      /\ ws[r]["J"].v = df[i].ghg_type
                      /\ ws[r]["K"].v = df[i].provenance
                      /\ ws[r]["L"] = MulCell(<<"E", r>>, <<"H", r>>)
                      /\ ws[r]["M"] = Div1000Cell(<<"L", r>>)
                      /\ DecEq(CellValue(ws, <<"L", r>>), df[i].kg)
                      /\ DecEq(CellValue(ws, <<"M", r>>), df[i].tonnes)
                      /\ detail_sheet(df)[i].L = CellValue(ws, <<"L", r>>)
                      /\ detail_sheet(df)[i].M = CellValue(ws, <<"M", r>>)

\* a second computed row, written to sheet row 3 with a non-zero emission
C15_Witness ==
    /\ calc_df # None
    /\ Len(Get(calc_df)) = 2
    /\ Get(calc_df)[2].kg.m = 50000
    /\ Get(calc_df)[1].kg.m = 0
    /\ ws1(Get(calc_df))[3]["M"].a = <<"L", 3>>
    /\ CellValue(ws1(Get(calc_df)), <<"M", 3>>) = [m |-> 50000, s |-> 7]

PathwayTable ==
    << <<Code11, GuDingRanShao>>, <<Code12, YiDongRanShao>>, <<Code13, GongYiPaiFang>>,
       <<Code14, WuZuZhiPaiFang>>, <<Code21, WaiGouDianLi>>, <<Code22, WaiGouReLi>> >>

\* the position of the first code of the table that occurs in text, 0 if none does
FirstCode(text) ==
    LET hits == {k \in 1..Len(PathwayTable) : Contains(PathwayTable[k][1], text)}
    IN  IF hits = {} THEN 0 ELSE CHOOSE k \in hits : \A j \in hits : k <= j

\* C18: the pathway of a row is the one of the first code, in the order 1.1, 1.2,
\* 1.3, 1.4, 2.1, 2.2, that occurs in its subcategory, and the key is
\* pathway-source (the electricity pathway may put its canonical entry for the
\* source); if no code occurs the suggested key is the unidentified sentinel and
\* the row is Unmatched, whatever the library holds.
C18_FirstMatchWins ==
    matched_data # None =>
        \A i \in 1..Len(Get(matched_data)) :
            LET m == Get(matched_data)[i]
                k == FirstCode(PyStr(m.subcategory))
                src == PyStr(m.source)
            IN  IF k = 0
                THEN m.suggested = Unidentified /\ m.status = Unmatched /\ m.factor = 0
                ELSE LET pathway == PathwayTable[k][2]
                     IN  /\ SubSeq(m.suggested, 1, Len(pathway) + 1) = pathway \o Dash
                         /\ (k # 5 \/ ~Contains(Dian, src)) =>
                                m.suggested = pathway \o Dash \o src

\* a subcategory in which two codes occur, dispatched by the earlier code, while
\* the library holds an entry named like the sentinel
C18_Witness ==
    /\ matched_data # None
    /\ Get(matched_data)[1].subcategory = SubTwoCodes
    /\ Get(matched_data)[1].suggested = GuDingRanShao \o Dash \o TianRanQi
    /\ Get(matched_data)[1].status = Matched
    /\ Unidentified \in DOMAIN library_at_match

\* C19: under the electricity pathway (2.1) a source containing 电 gets the
\* canonical key 外购电力-全国平均, also when the library holds 外购电力-<source>; a
\* source without 电 gets 外购电力-<source>; under every other pathway the key is
\* pathway-source.
C19_ElectricityCollapse ==
    matched_data # None =>
        \A i \in 1..Len(Get(matched_data)) :
            LET m == Get(matched_data)[i]
                k == FirstCode(PyStr(m.subcategory))
                src == PyStr(m.source)
                canonical == WaiGouDianLi \o Dash \o QuanGuoPingJun
            IN  /\ (k = 5 /\ Contains(Dian, src)) =>
                       /\ m.suggested = canonical
                       /\ canonical \in DOMAIN library_at_match =>
                             /\ m.status = Matched
                             /\ m.factor = library_at_match[canonical].factor
                /\ (k = 5 /\ ~Contains(Dian, src)) => m.suggested = WaiGouDianLi \o Dash \o src
                /\ (k \in {1, 2, 3, 4, 6}) => m.suggested = PathwayTable[k][2] \o Dash \o src

\* a municipal-electricity row matched to the canonical entry while the library
\* holds an entry for that very source
C19_Witness ==
    /\ matched_data # None
    /\ Get(matched_data)[1].subcategory = Sub21
    /\ Get(matched_data)[1].source = ShiZhengDian
    /\ WaiGouDianLi \o Dash \o ShiZhengDian \in DOMAIN library_at_match
    /\ Get(matched_data)[1].suggested = WaiGouDianLi \o Dash \o QuanGuoPingJun
    /\ Get(matched_data)[1].factor = 5703

\* C20: every computed row has exactly one scope, decided by its category alone:
\* ScopeOne if and only if the category contains 直接, otherwise ScopeTwo (a
\* category with neither 直接 nor 间接 and a missing category included), whatever
\* rule code its subcategory carries.
C20_ScopeFromCategory ==
    calc_df # None =>
        \A i \in 1..Len(Get(calc_df)) :
            LET r == Get(calc_df)[i]
            IN  /\ r.scope \in {ScopeOne, ScopeTwo}
                /\ r.scope = ScopeOne <=> Contains(ZhiJie, PyStr(r.category))
                /\ r.category \in {OtherCategory, NaN} => r.scope = ScopeTwo
                /\ \A sc \in MatchSubcategories :
                      calc_row_wide([r EXCEPT !.subcategory = sc]).scope = r.scope

\* a row of a direct category whose subcategory carries the code 2.1
C20_Witness ==
    /\ calc_df # None
    /\ Get(calc_df)[1].category = Scope1Category
    /\ Get(calc_df)[1].subcategory = Sub21
    /\ Get(calc_df)[1].scope = ScopeOne

\* the first row of df whose column col holds key
FirstSeen(df, col, key) ==
    CHOOSE i \in 1..Len(df) : df[i][col] = key /\ \A j \in 1..(i - 1) : df[j][col] # key

\* frame is in descending tonnes, equal tonnes in first-seen order of the keys
OrderedAsClaimed(frame, df, col) ==
    \A a, b \in 1..Len(frame) :
        a < b =>
            /\ ~DecGt(frame[b].tonnes, frame[a].tonnes)
            /\ DecEq(frame[a].tonnes, frame[b].tonnes) =>
                  FirstSeen(df, col, frame[a].key) < FirstSeen(df, col, frame[b].key)

\* C21: the gas-type buckets and the subcategory buckets are presented in
\* descending tonnes, and buckets with equal tonnes in the order in which their
\* keys first occur in the input rows.
C21_PresentationOrder ==
    calc_df # None =>
        LET df == Get(calc_df)
        IN  /\ OrderedAsClaimed(ghg_summary_sorted(df), df, "ghg_type")
            /\ OrderedAsClaimed(subcat_sorted(df), df, "subcategory")

\* C22: in every state calculation_done implies that matched_data and edited_data
\* are set, and results on the page are step 4 of edited_data; the step that sets
\* calculation_done happens with an accepted upload in the uploader, a Matcher
\* result stored, and edited_data stored by the reconciler of that same run.
C22_DoneImpliesMatched ==
    /\ [](/\ calculation_done => (matched_data # None /\ edited_data # None)
          /\ calc_df # None =>
                /\ calculation_done
                /\ edited_data # None
                /\ Get(calc_df) = step4_calc(Get(edited_data)))
    /\ [][(~calculation_done /\ calculation_done') =>
              /\ FileAccepted(uploaded_file')
              /\ matched_data' # None
              /\ Len(Get(matched_data')) > 0
              /\ edited_data' =
                    Some(Reconciler(Get(matched_data'),
                                    data_editor(Get(matched_data'), matched_edits')))
          ]_vars

\* results still on the page after the file was replaced by a rejected one
C22_Witness ==
    /\ calculation_done
    /\ calc_df # None
    /\ matched_data # None
    /\ edited_data # None
    /\ uploaded_file = "FileBad"


\* The session holds a Matcher result with zero rows.
ZeroRowsMatched == matched_data # None /\ Len(Get(matched_data)) = 0

\* C23 as stated: once the Matcher has run on a table with zero rows, the
\* read-failure report appears after every later action, whatever it is, until
\* the Matcher runs on a non-empty table.
C23_ZeroRowsAsStated ==
    ZeroRowsMatched => (error = "read_failed" /\ ~MatchedBlockShown)

\* C23: with a zero-row Matcher result in the session, matched/total raises
\* ZeroDivisionError; after every run of the script that has an accepted file
\* the read failure is reported and the confirm action is not offered; such a
\* run leaves edited_data and calculation_done as they were; and the session
\* leaves this condition only by a Matcher run on a non-empty table.  A run
\* without an accepted file does not reach the division and reports no read
\* failure.
C23_ZeroRows ==
    /\ [](ZeroRowsMatched =>
             /\ match_rate(Get(matched_data)).kind = "ZeroDivisionError"
             /\ FileAccepted(uploaded_file) =>
                   (error = "read_failed" /\ ~MatchedBlockShown)
             /\ ~FileAccepted(uploaded_file) => error # "read_failed")
    /\ [][ZeroRowsMatched' =>
              /\ edited_data' = edited_data
              /\ calculation_done' = calculation_done
          ]_vars
    /\ [][(ZeroRowsMatched /\ ~ZeroRowsMatched') =>
              /\ FileAccepted(uploaded_file')
              /\ Len(Get(uploaded_data')) > 0
              /\ matched_data' = Some(Matcher(Get(uploaded_data'), emission_factors'))
          ]_vars

C23_Witness ==
    /\ ZeroRowsMatched /\ uploaded_file = "FileA" /\ error = "read_failed"
    /\ calculation_done /\ edited_data # None /\ Len(Get(edited_data)) > 0

====
